---- MODULE Spec2Model ----
(***************************************************************************)
(* The gesture pipeline of tracker_worker.py: VideoWorker.run with its    *)
(* EMAFilter, the pinch ("return home") and flick ("page") state machines, *)
(* and the run/stop lifecycle of the worker thread.                        *)
(*                                                                         *)
(* Units.  Landmark distances and coordinates are integers in hundredths   *)
(* of the normalised image size (0.04 is 4); filter values are exact       *)
(* rationals <<numerator, denominator>> of hundredths.  Time is counted in  *)
(* ticks of half a second (1.0 s is 2).                                    *)
(***************************************************************************)
EXTENDS Integers, Sequences, FiniteSets

VARIABLES
    running,          \* VideoWorker.running
    filter_index,     \* VideoWorker.filter_index: [alpha, last_x, last_y]
    last_pinch_time,  \* VideoWorker.last_pinch_time
    is_pinching,      \* VideoWorker.is_pinching
    last_flick_time,  \* VideoWorker.last_flick_time
    is_flicking,      \* VideoWorker.is_flicking
    pc,               \* where the worker thread is: created, run, loop, finished
    cap,              \* the cv2.VideoCapture handle: none, open, failed, released
    stopper,          \* the owner's call of stop(): idle, waiting, returned
    current_time,     \* time.time() as read by the latest processed frame
    hands,            \* results.multi_hand_landmarks (+ handedness) of that frame
    emitted,          \* the signals that frame's iteration emitted, in order
    op,               \* history: the operation that made the latest step
    prev,             \* history: is_pinching/is_flicking on entry to the latest frame
    last_home_emit,   \* history: times of the latest return_home_ready emissions
    last_page_emit,   \* history: times of the latest page_flick_ready emissions
    lost,             \* history: the frame before the latest one lost the hand
                      \*          and reset this machine from Active
    hold,             \* history: the pinch pose held now: frames, emissions, start
    queue,            \* slot calls posted to the window's thread, not yet handled
    window,           \* GameWindow: the fields its slots read and assign
    served,           \* history: the slot call the window handled latest
    life,             \* history: counts of frames, posted calls, failed reads
    before,           \* history: the window's fields before the slot it ran latest
    fed,              \* history: the raw points given to a filter, in order
    outs,             \* history: the points that filter returned, in order
    shown             \* history: for each frame of a cursor session, whether it
                      \*          showed a hand

vars == <<running, filter_index, last_pinch_time, is_pinching, last_flick_time,
          is_flicking, pc, cap, stopper, current_time, hands, emitted, op, prev,
          last_home_emit, last_page_emit, lost, hold, queue, window, served, life,
          before, fed, outs, shown>>

\* what the window's thread and the event channel hold
session_vars == <<queue, window, served, life, before>>

\* the record of a filter's calls
probe_vars == <<fed, outs, shown>>

----------------------------------------------------------------------------
(* Program constants *)

GRASP_THRESHOLD == 20

PINCH_THRESHOLD == 4

PINCH_COOLDOWN == 2

FLICK_THRESHOLD == 7

FLICK_COOLDOWN == 2

Y_COMPENSATION_OFFSET == 4

\* EMAFilter(alpha=0.3), as the rational 3/10
ALPHA == <<3, 10>>

----------------------------------------------------------------------------
(* Bounds of the model *)

\* the clock runs this many ticks past its first reading
Horizon == 3

\* at most this many ticks pass between two processed frames
MaxStep == 1

\* a held pinch pose is followed for this many frames, then counted as "long"
MaxHold == 2

\* time.time() counts from the epoch: every reading is far more than a
\* cooldown above the 0 that last_pinch_time and last_flick_time start from
ClockStart == PINCH_COOLDOWN + FLICK_COOLDOWN + 1

MaxTime == ClockStart + Horizon

----------------------------------------------------------------------------
(* Exact rational arithmetic for the filter *)

RECURSIVE Gcd(_, _)
Gcd(a, b) == IF b = 0 THEN (IF a < 0 THEN -a ELSE a) ELSE Gcd(b, a % b)

Norm(q) ==
    LET g == Gcd(IF q[1] < 0 THEN -q[1] ELSE q[1], q[2])
    IN  IF g = 0 THEN <<0, 1>> ELSE <<q[1] \div g, q[2] \div g>>

Rat(n) == <<n, 1>>

RAdd(p, q) == Norm(<<p[1] * q[2] + q[1] * p[2], p[2] * q[2]>>)

RMul(p, q) == Norm(<<p[1] * q[1], p[2] * q[2]>>)

ROneMinus(p) == Norm(<<p[2] - p[1], p[2]>>)

----------------------------------------------------------------------------
(* EMAFilter *)

\* Python's None
None == <<>>

Some(v) == <<v>>

EMAFilter_init(alpha) == [alpha |-> alpha, last_x |-> None, last_y |-> None]

\* mutant of EMAFilter_filter: the two weights are exchanged
EMAFilter_filterSwapped(f, new_x, new_y) ==
    IF f.last_x = None
    THEN [f EXCEPT !.last_x = Some(new_x), !.last_y = Some(new_y)]
    ELSE [f EXCEPT
            !.last_x = Some(RAdd(RMul(ROneMinus(f.alpha), new_x),
                                 RMul(f.alpha, f.last_x[1]))),
            !.last_y = Some(RAdd(RMul(ROneMinus(f.alpha), new_y),
                                 RMul(f.alpha, f.last_y[1])))]

\* mutant of EMAFilter_filter: no smoothing, the raw point is returned
EMAFilter_filterRaw(f, new_x, new_y) ==
    [f EXCEPT !.last_x = Some(new_x), !.last_y = Some(new_y)]

\* EMAFilter.filter: the filter after the call; the call returns its
\* (last_x, last_y)
EMAFilter_filter(f, new_x, new_y) ==
    IF f.last_x = None
    THEN [f EXCEPT !.last_x = Some(new_x), !.last_y = Some(new_y)]
    ELSE [f EXCEPT
            !.last_x = Some(RAdd(RMul(f.alpha, new_x),
                                 RMul(ROneMinus(f.alpha), f.last_x[1]))),
            !.last_y = Some(RAdd(RMul(f.alpha, new_y),
                                 RMul(ROneMinus(f.alpha), f.last_y[1])))]

----------------------------------------------------------------------------
(* Frames: what cap.read() and hands.process() hand to one loop iteration *)

Labels == {"Left", "Right"}

\* wrist-to-fingertip distances (index, middle, ring, pinky) of a closed and
\* of a half-open hand; the second averages to GRASP_THRESHOLD exactly
WristTipClosed == <<12, 8, 10, 10>>

WristTipOpen == <<14, 22, 24, 20>>

\* thumb-middle distances just below and at PINCH_THRESHOLD
PinchChoices == {3, 4}

\* thumb-pinky distances just below and at FLICK_THRESHOLD
FlickChoices == {6, 7}

\* The index fingertip rests at (0.50, 0.50) on the screen; a closed hand
\* reads Y_COMPENSATION_OFFSET lower, which the compensation takes out again.
IndexX == 50

IndexY(wrist_tip) == IF wrist_tip = WristTipClosed THEN 54 ELSE 50

Hand(label, wrist_tip, thumb_middle, thumb_pinky) ==
    [label |-> label, wrist_tip |-> wrist_tip, thumb_middle |-> thumb_middle,
     thumb_pinky |-> thumb_pinky, index_x |-> IndexX, index_y |-> IndexY(wrist_tip)]

\* the hand MediaPipe lists first (hand[0], the cursor hand)
CursorHands ==
    { Hand(l, w, p, f) : l \in Labels, w \in {WristTipClosed, WristTipOpen},
                         p \in PinchChoices, f \in FlickChoices }

\* the cursor hands that appear together with a second hand: open, not pinching
PagingHands == { h \in CursorHands : ~(h.wrist_tip = WristTipClosed) /\ h.thumb_middle = 4 }

Other(label) == IF label = "Left" THEN "Right" ELSE "Left"

\* a second hand (max_num_hands=2) is the other hand of the same person
SecondHands(h) == { Hand(Other(h.label), WristTipOpen, 4, f) : f \in FlickChoices }

Frames ==
    {<<>>} \cup { <<h>> : h \in CursorHands }
           \cup UNION { { <<h, g>> : g \in SecondHands(h) } : h \in PagingHands }

----------------------------------------------------------------------------
(* The classifiers of VideoWorker.run *)

RECURSIVE SumSeq(_)
SumSeq(s) == IF s = <<>> THEN 0 ELSE Head(s) + SumSeq(Tail(s))

\* mutant of IsGrasping: a mean distance of exactly GRASP_THRESHOLD is a grasp
IsGraspingAtMost(h) == SumSeq(h.wrist_tip) <= GRASP_THRESHOLD * Len(h.wrist_tip)

\* average_distance < GRASP_THRESHOLD, with average_distance =
\* total_distance / len(finger_tips_indices), compared without the division
IsGrasping(h) == SumSeq(h.wrist_tip) < GRASP_THRESHOLD * Len(h.wrist_tip)

IsCurrentPinch(h) == h.thumb_middle < PINCH_THRESHOLD

IsCurrentFlick(h) == h.thumb_pinky < FLICK_THRESHOLD

Signal(sig, arg) == [sig |-> sig, arg |-> arg]

\* mutant of CooldownOver: the cooldown counts as over at its last instant
CooldownOverAtLeast(t, last, cooldown) == t - last >= cooldown

\* current_time - self.last_..._time > cooldown
CooldownOver(t, last, cooldown) == t - last > cooldown

\* mutant of PinchFires: the cooldown is not looked at
PinchFiresNoCooldown(grasping, pinching, t, last) == ~grasping /\ ~pinching

\* mutant of PinchFires: the grasp is not looked at
PinchFiresDespiteGrasp(grasping, pinching, t, last) ==
    ~pinching /\ t - last > PINCH_COOLDOWN

\* mutant of PinchFires: the Idle/Active flag is not looked at
PinchFiresWhileActive(grasping, pinching, t, last) ==
    ~grasping /\ t - last > PINCH_COOLDOWN

\* the condition of line 156
PinchFires(grasping, pinching, t, last) ==
    ~grasping /\ ~pinching /\ CooldownOver(t, last, PINCH_COOLDOWN)

\* lines 150-164: the pinch state machine on a frame with a hand
PinchStep(h, grasping, t, pinching, last) ==
    LET pinch_pose_detected == IsCurrentPinch(h)
        fire == pinch_pose_detected /\ PinchFires(grasping, pinching, t, last)
        pinching1 == IF fire THEN TRUE ELSE pinching
    IN  [emit |-> IF fire THEN <<Signal("return_home_ready", <<>>)>> ELSE <<>>,
         last_pinch_time |-> IF fire THEN t ELSE last,
         is_pinching |-> IF ~pinch_pose_detected /\ pinching1 THEN FALSE
                         ELSE pinching1]

\* lines 186-191
FlickSignal(label) ==
    IF label = "Right" THEN <<Signal("page_flick_ready", 1)>>
    ELSE IF label = "Left" THEN <<Signal("page_flick_ready", -1)>>
    ELSE <<>>

\* the condition of line 184
FlickFires(flicking, t, last) ==
    ~flicking /\ CooldownOver(t, last, FLICK_COOLDOWN)

\* mutant of FlickLoop: the direction is read from hand[0], the cursor hand
RECURSIVE FlickLoopCursorLabel(_, _, _, _)
FlickLoopCursorLabel(hs, idx, t, st) ==
    IF idx > Len(hs) THEN st
    ELSE IF ~(hs[idx].thumb_pinky < FLICK_THRESHOLD)
         THEN FlickLoopCursorLabel(hs, idx + 1, t, st)
    ELSE IF ~st.is_flicking /\ t - st.last_flick_time > FLICK_COOLDOWN
         THEN [emit |-> st.emit \o FlickSignal(hs[1].label),
               last_flick_time |-> t,
               is_flicking |-> TRUE,
               flick_pose_detected |-> TRUE]
         ELSE FlickLoopCursorLabel(hs, idx + 1, t,
                                   [st EXCEPT !.flick_pose_detected = TRUE])

\* mutant of FlickLoop: every hand is judged by the state the frame began with,
\* and the loop does not stop at the first hand that fires
RECURSIVE FlickLoopEveryHand(_, _, _, _)
FlickLoopEveryHand(hs, idx, t, st) ==
    IF idx > Len(hs) THEN st
    ELSE IF ~(hs[idx].thumb_pinky < FLICK_THRESHOLD)
         THEN FlickLoopEveryHand(hs, idx + 1, t, st)
    ELSE IF st.emit # <<>> \/
            (~st.is_flicking /\ t - st.last_flick_time > FLICK_COOLDOWN)
         THEN FlickLoopEveryHand(hs, idx + 1, t,
                 [emit |-> st.emit \o FlickSignal(hs[idx].label),
                  last_flick_time |-> t,
                  is_flicking |-> TRUE,
                  flick_pose_detected |-> TRUE])
         ELSE FlickLoopEveryHand(hs, idx + 1, t,
                                 [st EXCEPT !.flick_pose_detected = TRUE])

\* lines 167-195: the loop over the detected hands, from hand idx on; st holds
\* is_flicking, last_flick_time, flick_pose_detected and the signals emitted
RECURSIVE FlickLoop(_, _, _, _)
FlickLoop(hs, idx, t, st) ==
    IF idx > Len(hs) THEN st
    ELSE IF ~IsCurrentFlick(hs[idx]) THEN FlickLoop(hs, idx + 1, t, st)
    ELSE IF FlickFires(st.is_flicking, t, st.last_flick_time)
         THEN \* emit, remember, break
              [emit |-> st.emit \o FlickSignal(hs[idx].label),
               last_flick_time |-> t,
               is_flicking |-> TRUE,
               flick_pose_detected |-> TRUE]
         ELSE FlickLoop(hs, idx + 1, t, [st EXCEPT !.flick_pose_detected = TRUE])

\* lines 167-198: the flick state machine on a frame with hands
FlickStep(hs, t, flicking, last) ==
    LET st == FlickLoop(hs, 1, t, [emit |-> <<>>, last_flick_time |-> last,
                                   is_flicking |-> flicking,
                                   flick_pose_detected |-> FALSE])
    IN  [st EXCEPT !.is_flicking =
            IF ~st.flick_pose_detected /\ st.is_flicking THEN FALSE
            ELSE st.is_flicking]

\* lines 209-213: the frame for display, with the overlays drawn on it
ImageSignal(hs) == <<Signal("image_ready", Len(hs))>>

\* mutant of WithHands: the offset is taken from the smoothed y, not from the
\* raw one
WithHandsCompensatesAfter(hs, t, filt, pinching, lpt, flicking, lft) ==
    LET cursor == hs[1]
        is_grasping == IsGrasping(cursor)
        filt0 == EMAFilter_filter(filt, Rat(cursor.index_x), Rat(cursor.index_y))
        filt1 == IF is_grasping
                 THEN [filt0 EXCEPT !.last_y =
                          Some(RAdd(filt0.last_y[1], Rat(-Y_COMPENSATION_OFFSET)))]
                 ELSE filt0
        p == PinchStep(cursor, is_grasping, t, pinching, lpt)
        f == FlickStep(hs, t, flicking, lft)
    IN  [filter_index |-> filt1,
         is_pinching |-> p.is_pinching, last_pinch_time |-> p.last_pinch_time,
         is_flicking |-> f.is_flicking, last_flick_time |-> f.last_flick_time,
         emitted |-> <<Signal("gesture_ready", is_grasping),
                       Signal("coords_ready", <<filt1.last_x[1], filt1.last_y[1]>>)>>
                     \o p.emit \o f.emit \o ImageSignal(hs)]

\* lines 100-203: a frame in which hands were found
WithHands(hs, t, filt, pinching, lpt, flicking, lft) ==
    LET cursor == hs[1]
        is_grasping == IsGrasping(cursor)
        x_raw == cursor.index_x
        y_raw == IF is_grasping THEN cursor.index_y - Y_COMPENSATION_OFFSET
                 ELSE cursor.index_y
        filt1 == EMAFilter_filter(filt, Rat(x_raw), Rat(y_raw))
        p == PinchStep(cursor, is_grasping, t, pinching, lpt)
        f == FlickStep(hs, t, flicking, lft)
    IN  [filter_index |-> filt1,
         is_pinching |-> p.is_pinching, last_pinch_time |-> p.last_pinch_time,
         is_flicking |-> f.is_flicking, last_flick_time |-> f.last_flick_time,
         emitted |-> <<Signal("gesture_ready", is_grasping),
                       Signal("coords_ready", <<filt1.last_x[1], filt1.last_y[1]>>)>>
                     \o p.emit \o f.emit \o ImageSignal(hs)]

\* mutant of NoHands: the image is emitted inside the hand branch only
NoHandsNoImage(hs, t, filt, pinching, lpt, flicking, lft) ==
    [filter_index |-> filt, is_pinching |-> FALSE, last_pinch_time |-> lpt,
     is_flicking |-> FALSE, last_flick_time |-> lft, emitted |-> <<>>]

\* mutant of NoHands: the two machines are left as they were
NoHandsNoReset(hs, t, filt, pinching, lpt, flicking, lft) ==
    [filter_index |-> filt,
     is_pinching |-> pinching, last_pinch_time |-> lpt,
     is_flicking |-> flicking, last_flick_time |-> lft,
     emitted |-> ImageSignal(hs)]

\* mutant of NoHands: the filter is reset along with the machines
NoHandsResetsFilter(hs, t, filt, pinching, lpt, flicking, lft) ==
    [filter_index |-> EMAFilter_init(filt.alpha),
     is_pinching |-> FALSE, last_pinch_time |-> lpt,
     is_flicking |-> FALSE, last_flick_time |-> lft,
     emitted |-> ImageSignal(hs)]

\* lines 205-213: a frame in which no hand was found
NoHands(hs, t, filt, pinching, lpt, flicking, lft) ==
    [filter_index |-> filt,
     is_pinching |-> FALSE, last_pinch_time |-> lpt,
     is_flicking |-> FALSE, last_flick_time |-> lft,
     emitted |-> ImageSignal(hs)]

\* lines 88-213: the body of one loop iteration whose read succeeded
Iteration(hs, t, filt, pinching, lpt, flicking, lft) ==
    IF hs # <<>> THEN WithHands(hs, t, filt, pinching, lpt, flicking, lft)
    ELSE NoHands(hs, t, filt, pinching, lpt, flicking, lft)

----------------------------------------------------------------------------
(* History kept beside the program state, for stating the properties *)

Emits(sigs, sig) == \E i \in 1..Len(sigs) : sigs[i].sig = sig

\* the (at most two) latest emission times, with t added when sigs has sig
Emissions(log, sigs, sig, t) ==
    IF ~Emits(sigs, sig) THEN log
    ELSE IF Len(log) < 2 THEN Append(log, t)
    ELSE <<log[2], t>>

NoHold == [frames |-> 0, fires |-> 0, clean |-> FALSE, due |-> FALSE,
           over |-> FALSE, first |-> FALSE]

\* the pinch pose held over consecutive frames: how many frames so far (up to
\* MaxHold), how many return_home_ready it emitted, whether every frame of it
\* was without grasp, whether at its first frame the time since the previous
\* emission was at least (due) or more than (over) PINCH_COOLDOWN, and whether
\* its first frame emitted
Held(h, hs, sigs, t, lpt) ==
    LET fired == IF Emits(sigs, "return_home_ready") THEN 1 ELSE 0
    IN  IF hs = <<>> \/ ~(hs[1].thumb_middle < PINCH_THRESHOLD) THEN NoHold
        ELSE IF h.frames = 0
        THEN [frames |-> 1, fires |-> fired,
              clean |-> ~IsGrasping(hs[1]),
              due |-> t - lpt >= PINCH_COOLDOWN,
              over |-> t - lpt > PINCH_COOLDOWN,
              first |-> fired = 1]
        ELSE [h EXCEPT !.frames = IF @ < MaxHold THEN @ + 1 ELSE @,
                       !.fires = IF @ + fired > 2 THEN 2 ELSE @ + fired,
                       !.clean = @ /\ ~IsGrasping(hs[1])]

----------------------------------------------------------------------------
(* GameWindow: the fields its slots and timers read and assign.  The scene *)
(* items are kept as what the slots test of them (the canvas exists, the   *)
(* tiles by name, the fruits by number); pixels drawn, the knife trail and *)
(* the fruits' motion are not kept.                                        *)

GAME_WIDTH == 1200

GAME_HEIGHT == 800

COLOR_ORDER == <<"Red", "Green", "Blue", "Yellow", "Eraser">>

COLOR_TILE_SIZE == 50

COLOR_AREA_WIDTH == COLOR_TILE_SIZE * 2

PEN_SIZES == [Small |-> 8, Medium |-> 18, Large |-> 36]

SIZE_ORDER == <<"Small", "Medium", "Large">>

SIZE_TILE_SIZE == 30

\* self.game_list (line 116)
game_list == <<"Drawing App", "Fruit Slicer", "Exit Game">>

\* len(self.launcher_items): the title and one item per game (_setup_launcher)
LauncherItems == 1 + Len(game_list)

\* the viewport of the view that fills the window (setGeometry, line 88)
VIEW_WIDTH == GAME_WIDTH

VIEW_HEIGHT == GAME_HEIGHT

\* the knife cursor: an ellipse of this diameter with a pen of this width
\* (_setup_ui_elements)
CursorSize == 20

CursorPen == 2

\* at most this many fruits and slices are in the scene together
MaxFruits == 2

\* GameWindow.__init__ (lines 82-144)
GameWindow_init ==
    [game_state |-> "launcher",
     is_grasping |-> FALSE,
     knife_cursor |-> <<Rat(0), Rat(0)>>,
     current_selection |-> 0,
     active_fruits |-> 0,
     drawing_canvas |-> FALSE,
     color_tiles |-> <<>>,
     size_tiles |-> <<>>,
     current_color |-> "Red",
     current_pen_size |-> PEN_SIZES.Medium,
     game_timer |-> TRUE,
     spawn_timer |-> FALSE,
     closed |-> FALSE]

RLess(p, q) == p[1] * q[2] < q[1] * p[2]

RMin(p, q) == IF RLess(p, q) THEN p ELSE q

RMax(p, q) == IF RLess(p, q) THEN q ELSE p

\* a rectangle at (x, y) of size w x h, grown by half the pen width on every
\* side (boundingRect); pen is the pen width
BoundingRect(x, y, w, h, pen) ==
    [left |-> RAdd(x, <<-pen, 2>>), right |-> RAdd(RAdd(x, w), <<pen, 2>>),
     top |-> RAdd(y, <<-pen, 2>>), bottom |-> RAdd(RAdd(y, h), <<pen, 2>>)]

\* QRectF.intersects
Intersects(a, b) ==
    /\ RLess(a.left, b.right) /\ RLess(b.left, a.right)
    /\ RLess(a.top, b.bottom) /\ RLess(b.top, a.bottom)

\* self.knife_cursor.sceneBoundingRect()
CursorRect(w) ==
    BoundingRect(w.knife_cursor[1], w.knife_cursor[2], Rat(CursorSize),
                 Rat(CursorSize), CursorPen)

\* the i-th colour tile of _setup_drawing_app (lines 246-259), pen width 1
ColorTileRect(i) ==
    BoundingRect(Rat((GAME_WIDTH - COLOR_AREA_WIDTH)
                        + (COLOR_AREA_WIDTH - COLOR_TILE_SIZE) \div 2),
                 Rat(50 + (i - 1) * (COLOR_TILE_SIZE + 10)),
                 Rat(COLOR_TILE_SIZE), Rat(COLOR_TILE_SIZE), 1)

\* the i-th size tile (lines 262-287); _update_pen_size_selection gives the
\* tile of the current size a pen of width 3, the others one of width 1
SizeTileRect(w, i) ==
    BoundingRect(Rat((GAME_WIDTH - COLOR_AREA_WIDTH)
                        + (COLOR_AREA_WIDTH - SIZE_TILE_SIZE) \div 2),
                 Rat(50 + Len(COLOR_ORDER) * (COLOR_TILE_SIZE + 10) + 30
                        + (i - 1) * (SIZE_TILE_SIZE + 10)),
                 Rat(SIZE_TILE_SIZE), Rat(SIZE_TILE_SIZE),
                 IF PEN_SIZES[w.size_tiles[i]] = w.current_pen_size THEN 3 ELSE 1)

Least(S) == CHOOSE i \in S : \A j \in S : i <= j

\* closeEvent (lines 642-650); the worker's stop() is the owner's Stop
CloseEvent(w) ==
    [w EXCEPT !.game_timer = FALSE, !.spawn_timer = FALSE, !.closed = TRUE]

\* _setup_drawing_app (lines 234-293)
SetupDrawingApp(w) ==
    [w EXCEPT !.drawing_canvas = TRUE, !.color_tiles = COLOR_ORDER,
              !.size_tiles = SIZE_ORDER]

\* _cleanup_drawing_app (lines 295-311)
CleanupDrawingApp(w) ==
    [w EXCEPT !.drawing_canvas = FALSE, !.color_tiles = <<>>, !.size_tiles = <<>>,
              !.current_color = "Red", !.current_pen_size = PEN_SIZES.Medium]

\* mutant of CleanupFruitSlicer: the fruits are removed, the timer runs on
CleanupFruitSlicerKeepsTimer(w) == [w EXCEPT !.active_fruits = 0]

\* _cleanup_fruit_slicer (lines 313-318)
CleanupFruitSlicer(w) == [w EXCEPT !.spawn_timer = FALSE, !.active_fruits = 0]

\* switch_to_game_mode (lines 320-347)
SwitchToGameMode(w, mode) ==
    LET w1 == IF w.game_state = "drawing_app" THEN CleanupDrawingApp(w)
              ELSE IF w.game_state = "fruit_slicer" THEN CleanupFruitSlicer(w)
              ELSE w
        w2 == [w1 EXCEPT !.game_state = mode]
    IN  IF mode = "drawing_app" THEN SetupDrawingApp(w2)
        ELSE IF mode = "fruit_slicer" THEN [w2 EXCEPT !.spawn_timer = TRUE]
        ELSE w2

\* start_game (lines 455-465)
StartGame(w, name) ==
    IF name = "Drawing App" THEN SwitchToGameMode(w, "drawing_app")
    ELSE IF name = "Fruit Slicer" THEN SwitchToGameMode(w, "fruit_slicer")
    ELSE IF name = "Exit Game" THEN CloseEvent(w)
    ELSE w

\* check_launcher_click (lines 420-433)
CheckLauncherClick(w) ==
    IF w.current_selection + 1 >= LauncherItems THEN w
    ELSE StartGame(w, game_list[w.current_selection + 1])

\* check_color_and_size_pickup (lines 435-453): the first colour tile under
\* the cursor, else the first size tile under it
CheckColorAndSizePickup(w) ==
    LET colors == {i \in 1..Len(w.color_tiles) :
                      Intersects(CursorRect(w), ColorTileRect(i))}
        sizes == {i \in 1..Len(w.size_tiles) :
                      Intersects(CursorRect(w), SizeTileRect(w, i))}
    IN  IF colors # {} THEN [w EXCEPT !.current_color = w.color_tiles[Least(colors)]]
        ELSE IF sizes # {}
        THEN [w EXCEPT !.current_pen_size = PEN_SIZES[w.size_tiles[Least(sizes)]]]
        ELSE w

\* mutant of HandleGraspState: every true is a click, not only the first
HandleGraspStateEveryTrue(w, is_grasping) ==
    LET w1 == [w EXCEPT !.is_grasping = is_grasping]
    IN  IF ~is_grasping THEN w1
        ELSE IF w1.game_state = "launcher" THEN CheckLauncherClick(w1)
        ELSE IF w1.game_state = "drawing_app" THEN CheckColorAndSizePickup(w1)
        ELSE w1

\* handle_grasp_state (lines 393-418)
HandleGraspState(w, is_grasping) ==
    LET was_grasping == w.is_grasping
        w1 == [w EXCEPT !.is_grasping = is_grasping]
    IN  IF ~is_grasping \/ was_grasping THEN w1
        ELSE IF w1.game_state = "launcher" THEN CheckLauncherClick(w1)
        ELSE IF w1.game_state = "drawing_app" THEN CheckColorAndSizePickup(w1)
        ELSE w1

\* mutant of HandleFlickGesture: the mode is not looked at
HandleFlickGestureAnyMode(w, direction) ==
    [w EXCEPT !.current_selection = (@ + direction) % Len(game_list)]

\* handle_flick_gesture (lines 380-391); Python's % is never negative for a
\* positive modulus, as is the % here
HandleFlickGesture(w, direction) ==
    IF w.game_state # "launcher" THEN w
    ELSE LET s == (w.current_selection + direction) % Len(game_list)
         IN  [w EXCEPT !.current_selection = IF s < 0 THEN s + Len(game_list) ELSE s]

\* update_knife_position (lines 609-633), x_norm and y_norm in hundredths
UpdateKnifePosition(w, x_norm, y_norm) ==
    LET x_pixel == RMax(Rat(0), RMin(RMul(RMul(x_norm, <<VIEW_WIDTH, 100>>), <<3, 2>>),
                                     Rat(GAME_WIDTH)))
        y_pixel == RMax(Rat(0), RMin(RMul(RMul(y_norm, <<VIEW_HEIGHT, 100>>), <<3, 2>>),
                                     Rat(GAME_HEIGHT)))
    IN  [w EXCEPT !.knife_cursor = <<RAdd(x_pixel, <<-CursorSize, 2>>),
                                     RAdd(y_pixel, <<-CursorSize, 2>>)>>]

----------------------------------------------------------------------------
(* The worker and its owner *)

\* no slot call has been handled yet
NoCall == [seq |-> 0, frame |-> 0, prev_seq |-> 0, prev_frame |-> 0]

\* VideoWorker.__init__ (lines 43-64) within GameWindow.__init__ (is_grasping,
\* line 110); the thread is not started yet
Init ==
    /\ running = TRUE
    /\ filter_index = EMAFilter_init(ALPHA)
    /\ last_pinch_time = 0
    /\ is_pinching = FALSE
    /\ last_flick_time = 0
    /\ is_flicking = FALSE
    /\ pc = "created"
    /\ cap = "none"
    /\ stopper = "idle"
    /\ current_time = ClockStart
    /\ hands = <<>>
    /\ emitted = <<>>
    /\ op = "init"
    /\ prev = [pinching |-> FALSE, flicking |-> FALSE]
    /\ last_home_emit = <<>>
    /\ last_page_emit = <<>>
    /\ lost = [pinch |-> FALSE, flick |-> FALSE]
    /\ hold = NoHold
    /\ queue = <<>>
    /\ window = GameWindow_init
    /\ before = GameWindow_init
    /\ served = NoCall
    /\ life = [frame_no |-> 0, posted |-> 0, fails |-> 0, restarted |-> FALSE]
    /\ fed = <<>>
    /\ outs = <<>>
    /\ shown = <<>>

\* GameWindow.__init__ line 143: self.worker.start()
Start ==
    /\ pc = "created"
    /\ pc' = "run"
    /\ op' = "start"
    /\ UNCHANGED <<running, filter_index, last_pinch_time, is_pinching,
                   last_flick_time, is_flicking, cap, stopper, current_time, hands,
                   emitted, prev, last_home_emit, last_page_emit, lost, hold,
                   session_vars, probe_vars>>

\* mutant of OpenCamera: a camera that does not open is only reported
OpenCameraNoReturn ==
    /\ pc = "run"
    /\ \E opened \in BOOLEAN :
         IF opened
         THEN cap' = "open" /\ pc' = "loop" /\ running' = running
         ELSE cap' = "failed" /\ pc' = "loop" /\ running' = running
    /\ op' = "open"
    /\ UNCHANGED <<filter_index, last_pinch_time, is_pinching, last_flick_time,
                   is_flicking, stopper, current_time, hands, emitted, prev,
                   last_home_emit, last_page_emit, lost, hold,
                   session_vars, probe_vars>>

\* lines 72-81: open the camera; a camera that does not open ends the session
OpenCamera ==
    /\ pc = "run"
    /\ \E opened \in BOOLEAN :
         IF opened
         THEN cap' = "open" /\ pc' = "loop" /\ running' = running
         ELSE cap' = "failed" /\ pc' = "finished" /\ running' = FALSE
    /\ op' = "open"
    /\ UNCHANGED <<filter_index, last_pinch_time, is_pinching, last_flick_time,
                   is_flicking, stopper, current_time, hands, emitted, prev,
                   last_home_emit, last_page_emit, lost, hold,
                   session_vars, probe_vars>>

\* lines 83-86: cap.read() fails and the iteration is skipped: nothing is
\* emitted, nothing is assigned
ReadFail ==
    /\ pc = "loop" /\ running
    /\ UNCHANGED vars

\* lines 88-213 on a frame drawn from F: the assignments of the iteration and
\* the signals it emits
Processed(F) ==
    /\ \E hs \in F, dt \in 0..MaxStep :
         /\ current_time + dt <= MaxTime
         /\ \E r \in {Iteration(hs, current_time + dt, filter_index, is_pinching,
                                last_pinch_time, is_flicking, last_flick_time)} :
              /\ current_time' = current_time + dt
              /\ hands' = hs
              /\ filter_index' = r.filter_index
              /\ is_pinching' = r.is_pinching
              /\ last_pinch_time' = r.last_pinch_time
              /\ is_flicking' = r.is_flicking
              /\ last_flick_time' = r.last_flick_time
              /\ emitted' = r.emitted
              /\ last_home_emit' = Emissions(last_home_emit, r.emitted,
                                             "return_home_ready", current_time')
              /\ last_page_emit' = Emissions(last_page_emit, r.emitted,
                                             "page_flick_ready", current_time')
              /\ hold' = Held(hold, hs, r.emitted, current_time', last_pinch_time)
    /\ prev' = [pinching |-> is_pinching, flicking |-> is_flicking]
    /\ lost' = [pinch |-> hands = <<>> /\ op = "frame" /\ prev.pinching,
                flick |-> hands = <<>> /\ op = "frame" /\ prev.flicking]
    /\ op' = "frame"

\* lines 83-213: one loop iteration on a frame that was read
ProcessFrame ==
    /\ pc = "loop" /\ running
    /\ Processed(Frames)
    /\ UNCHANGED <<running, pc, cap, stopper, session_vars, probe_vars>>

\* lines 83, 215-216: the loop test fails, the camera is released, run() returns
LoopExit ==
    /\ pc = "loop" /\ ~running
    /\ cap' = "released"
    /\ pc' = "finished"
    /\ op' = "exit"
    /\ UNCHANGED <<running, filter_index, last_pinch_time, is_pinching,
                   last_flick_time, is_flicking, stopper, current_time, hands,
                   emitted, prev, last_home_emit, last_page_emit, lost, hold,
                   session_vars, probe_vars>>

\* mutant of Stop: stop() waits without clearing the flag
StopNoFlag ==
    /\ stopper = "idle"
    /\ pc \in {"run", "loop", "read", "process"}
    /\ stopper' = "waiting"
    /\ op' = "stop"
    /\ UNCHANGED <<running, filter_index, last_pinch_time, is_pinching,
                   last_flick_time, is_flicking, pc, cap, current_time, hands,
                   emitted, prev, last_home_emit, last_page_emit, lost, hold,
                   session_vars, probe_vars>>

\* lines 66-68, called by GameWindow.closeEvent (lines 647-648) while the
\* thread runs: clear the flag, then wait
Stop ==
    /\ stopper = "idle"
    /\ pc \in {"run", "loop", "read", "process"}
    /\ running' = FALSE
    /\ stopper' = "waiting"
    /\ op' = "stop"
    /\ UNCHANGED <<filter_index, last_pinch_time, is_pinching, last_flick_time,
                   is_flicking, pc, cap, current_time, hands, emitted, prev,
                   last_home_emit, last_page_emit, lost, hold,
                   session_vars, probe_vars>>

\* mutant of StopReturn: stop() returns without waiting for the thread
StopReturnNoWait ==
    /\ stopper = "waiting"
    /\ stopper' = "returned"
    /\ op' = "stopped"
    /\ UNCHANGED <<running, filter_index, last_pinch_time, is_pinching,
                   last_flick_time, is_flicking, pc, cap, current_time, hands,
                   emitted, prev, last_home_emit, last_page_emit, lost, hold,
                   session_vars, probe_vars>>

\* line 69: self.wait() returns once run() has returned
StopReturn ==
    /\ stopper = "waiting"
    /\ pc = "finished"
    /\ stopper' = "returned"
    /\ op' = "stopped"
    /\ UNCHANGED <<running, filter_index, last_pinch_time, is_pinching,
                   last_flick_time, is_flicking, pc, cap, current_time, hands,
                   emitted, prev, last_home_emit, last_page_emit, lost, hold,
                   session_vars, probe_vars>>

Next ==
    \/ Start
    \/ OpenCamera
    \/ ReadFail
    \/ ProcessFrame
    \/ LoopExit
    \/ Stop
    \/ StopReturn

Spec == Init /\ [][Next]_vars

----------------------------------------------------------------------------
(* The session step by step: the worker thread's loop test, read and       *)
(* iteration as separate steps, the calls its signals post to the window's *)
(* thread, and the window handling them                                    *)

\* at most this many frames are read in one session
MaxFrames == 3

\* consecutive failed reads are counted up to this many
MaxFails == 2

\* no hand, a closed hand, an open hand
SessionFrames ==
    {<<>>, <<Hand("Right", WristTipClosed, 4, 7)>>, <<Hand("Right", WristTipOpen, 4, 7)>>}

\* mutant of Connections: gesture_ready is connected twice
ConnectionsTwice ==
    [image_ready |-> <<"update_video">>,
     coords_ready |-> <<"update_knife_position">>,
     gesture_ready |-> <<"handle_grasp_state", "handle_grasp_state">>,
     page_flick_ready |-> <<"handle_flick_gesture">>,
     return_home_ready |-> <<"switch_to_game_mode">>]

\* GameWindow.__init__ lines 136-141: the slots connected to each signal
Connections ==
    [image_ready |-> <<"update_video">>,
     coords_ready |-> <<"update_knife_position">>,
     gesture_ready |-> <<"handle_grasp_state">>,
     page_flick_ready |-> <<"handle_flick_gesture">>,
     return_home_ready |-> <<"switch_to_game_mode">>]

\* emit() from the worker thread: one call per connected slot is posted to the
\* window's thread, for sigs[i], sigs[i+1], ... in this order; the signals are
\* numbered base+1, base+2, ... in emission order
RECURSIVE Posted(_, _, _, _)
Posted(sigs, i, frame, base) ==
    IF i > Len(sigs) THEN <<>>
    ELSE LET slots == Connections[sigs[i].sig]
         IN  [k \in 1..Len(slots) |->
                 [slot |-> slots[k], sig |-> sigs[i].sig, arg |-> sigs[i].arg,
                  frame |-> frame, seq |-> base + i]]
             \o Posted(sigs, i + 1, frame, base)

\* the slot a call runs (update_video assigns none of the fields kept)
Handle(w, call) ==
    IF call.slot = "handle_grasp_state" THEN HandleGraspState(w, call.arg)
    ELSE IF call.slot = "update_knife_position"
    THEN UpdateKnifePosition(w, call.arg[1], call.arg[2])
    ELSE IF call.slot = "handle_flick_gesture" THEN HandleFlickGesture(w, call.arg)
    ELSE IF call.slot = "switch_to_game_mode" THEN SwitchToGameMode(w, "launcher")
    ELSE w

\* line 83: while self.running, taken
LoopTest ==
    /\ pc = "loop" /\ running
    /\ pc' = "read"
    /\ UNCHANGED <<running, filter_index, last_pinch_time, is_pinching,
                   last_flick_time, is_flicking, cap, stopper, current_time, hands,
                   emitted, op, prev, last_home_emit, last_page_emit, lost, hold,
                   session_vars, probe_vars>>

\* mutant of Read: a failed read is handled like a camera that does not open
ReadFailureStops ==
    /\ pc = "read"
    /\ \E success \in BOOLEAN :
         IF success
         THEN /\ life.frame_no < MaxFrames
              /\ pc' = "process"
              /\ life' = [life EXCEPT !.fails = 0]
              /\ running' = running
         ELSE /\ pc' = "loop"
              /\ life' = [life EXCEPT !.fails = IF @ < MaxFails THEN @ + 1 ELSE @]
              /\ running' = FALSE
    /\ UNCHANGED <<filter_index, last_pinch_time, is_pinching,
                   last_flick_time, is_flicking, cap, stopper, current_time, hands,
                   emitted, op, prev, last_home_emit, last_page_emit, lost, hold,
                   queue, window, served, before, probe_vars>>

\* lines 84-86: cap.read(); a failed read continues with the next loop test
Read ==
    /\ pc = "read"
    /\ \E success \in BOOLEAN :
         IF success
         THEN /\ life.frame_no < MaxFrames
              /\ pc' = "process"
              /\ life' = [life EXCEPT !.fails = 0]
         ELSE /\ pc' = "loop"
              /\ life' = [life EXCEPT !.fails = IF @ < MaxFails THEN @ + 1 ELSE @]
    /\ UNCHANGED <<running, filter_index, last_pinch_time, is_pinching,
                   last_flick_time, is_flicking, cap, stopper, current_time, hands,
                   emitted, op, prev, last_home_emit, last_page_emit, lost, hold,
                   queue, window, served, before, probe_vars>>

\* lines 88-213: the rest of the iteration; every emit posts its calls
Process ==
    /\ pc = "process"
    /\ Processed(SessionFrames)
    /\ pc' = "loop"
    /\ queue' = queue \o Posted(emitted', 1, life.frame_no + 1, life.posted)
    /\ life' = [life EXCEPT !.frame_no = @ + 1, !.posted = @ + Len(emitted')]
    /\ UNCHANGED <<running, cap, stopper, window, served, before, probe_vars>>

\* the window's thread runs the next posted call; it runs none while it is
\* blocked in stop() (closeEvent, lines 647-648)
Deliver ==
    /\ queue # <<>>
    /\ stopper # "waiting"
    /\ window' = Handle(window, Head(queue))
    /\ before' = window
    /\ served' = [seq |-> Head(queue).seq, frame |-> Head(queue).frame,
                  prev_seq |-> served.seq, prev_frame |-> served.frame]
    /\ queue' = Tail(queue)
    /\ UNCHANGED <<running, filter_index, last_pinch_time, is_pinching,
                   last_flick_time, is_flicking, pc, cap, stopper, current_time,
                   hands, emitted, op, prev, last_home_emit, last_page_emit, lost,
                   hold, life, probe_vars>>

\* mutant of Restart: entering run() sets the flag again
RestartSetsRunning ==
    /\ pc = "finished"
    /\ stopper # "waiting"
    /\ pc' = "run"
    /\ op' = "start"
    /\ running' = TRUE
    /\ life' = [life EXCEPT !.restarted = TRUE]
    /\ UNCHANGED <<filter_index, last_pinch_time, is_pinching,
                   last_flick_time, is_flicking, cap, stopper, current_time, hands,
                   emitted, prev, last_home_emit, last_page_emit, lost, hold,
                   queue, window, served, before, probe_vars>>

\* start() called again on a worker whose run() has returned: run() is
\* entered with the fields as they are (lines 71-72)
Restart ==
    /\ pc = "finished"
    /\ stopper # "waiting"
    /\ pc' = "run"
    /\ op' = "start"
    /\ life' = [life EXCEPT !.restarted = TRUE]
    /\ UNCHANGED <<running, filter_index, last_pinch_time, is_pinching,
                   last_flick_time, is_flicking, cap, stopper, current_time, hands,
                   emitted, prev, last_home_emit, last_page_emit, lost, hold,
                   queue, window, served, before, probe_vars>>

SessionNext ==
    \/ Start
    \/ OpenCamera
    \/ LoopTest
    \/ Read
    \/ Process
    \/ LoopExit
    \/ Stop
    \/ StopReturn
    \/ Deliver
    \/ Restart

SpecSession == Init /\ [][SessionNext]_vars

\* the scheduler lets the worker thread run, and cap.read() and
\* hands.process() return; the owner is free never to call stop()
FairSession ==
    /\ SpecSession
    /\ WF_vars(OpenCamera)
    /\ WF_vars(LoopTest)
    /\ WF_vars(Read)
    /\ WF_vars(Process)
    /\ WF_vars(LoopExit)
    /\ WF_vars(StopReturn)

----------------------------------------------------------------------------
(* An EMAFilter(0.3) on its own, called with points of a small grid *)

\* a filter is called at most this many times
MaxCalls == 3

\* raw coordinates, in hundredths
RawCoords == {10, 50, 90}

\* EMAFilter.filter(new_x, new_y) (lines 24-31) on the filter of line 46
FilterCall ==
    /\ Len(fed) < MaxCalls
    /\ \E new_x \in RawCoords, new_y \in RawCoords :
         /\ filter_index' = EMAFilter_filter(filter_index, Rat(new_x), Rat(new_y))
         /\ fed' = Append(fed, <<new_x, new_y>>)
         /\ outs' = Append(outs, <<filter_index'.last_x[1], filter_index'.last_y[1]>>)
    /\ UNCHANGED <<running, last_pinch_time, is_pinching, last_flick_time,
                   is_flicking, pc, cap, stopper, current_time, hands, emitted, op,
                   prev, last_home_emit, last_page_emit, lost, hold, session_vars,
                   shown>>

FilterNext == FilterCall

SpecFilter == Init /\ [][FilterNext]_vars

----------------------------------------------------------------------------
(* The window on its own: its slots run on signals that arrive in any      *)
(* order, its timers fire, the user closes it                              *)

\* where coords_ready puts the cursor, in hundredths: on the canvas, on the
\* Red and Green tiles at once, on the Green tile, on the Large tile
KnifePoints == {<<20, 20>>, <<64, 9>>, <<64, 11>>, <<64, 40>>}

\* what every step of the window leaves alone
worker_vars ==
    <<running, filter_index, last_pinch_time, is_pinching, last_flick_time,
      is_flicking, pc, cap, stopper, current_time, hands, emitted, prev,
      last_home_emit, last_page_emit, lost, hold, queue, served, life, probe_vars>>

\* gesture_ready(b) runs handle_grasp_state(b)
GestureReady ==
    /\ \E b \in BOOLEAN : window' = HandleGraspState(window, b)
    /\ before' = window
    /\ op' = "gesture_ready"
    /\ UNCHANGED worker_vars

\* coords_ready(x, y) runs update_knife_position(x, y)
CoordsReady ==
    /\ \E pt \in KnifePoints :
         window' = UpdateKnifePosition(window, Rat(pt[1]), Rat(pt[2]))
    /\ before' = window
    /\ op' = "coords_ready"
    /\ UNCHANGED worker_vars

\* page_flick_ready(direction) runs handle_flick_gesture(direction)
PageFlick ==
    /\ \E direction \in {-1, 1} :
         /\ window' = HandleFlickGesture(window, direction)
         /\ op' = IF direction = 1 THEN "flick_right" ELSE "flick_left"
    /\ before' = window
    /\ UNCHANGED worker_vars

\* return_home_ready runs switch_to_game_mode('launcher') (line 141)
ReturnHome ==
    /\ window' = SwitchToGameMode(window, "launcher")
    /\ before' = window
    /\ op' = "return_home"
    /\ UNCHANGED worker_vars

\* game_timer fires game_loop (lines 479-489); in fruit_slicer _update_fruits
\* removes a fruit that fell out of the scene or, while grasping, cuts one
\* into two slices (slice_fruit)
GameLoop ==
    /\ window.game_timer
    /\ \E fruits \in 0..MaxFruits :
         /\ \/ fruits = window.active_fruits
            \/ /\ window.game_state = "fruit_slicer"
               /\ window.active_fruits > 0
               /\ \/ fruits = window.active_fruits - 1
                  \/ window.is_grasping /\ fruits = window.active_fruits + 1
         /\ window' = [window EXCEPT !.active_fruits = fruits]
    /\ before' = window
    /\ op' = "game_loop"
    /\ UNCHANGED worker_vars

\* spawn_timer fires spawn_random_fruit (lines 522-544); nothing is added
\* when the picture does not load
SpawnRandomFruit ==
    /\ window.spawn_timer
    /\ window.active_fruits < MaxFruits
    /\ \E loaded \in BOOLEAN :
         window' = [window EXCEPT !.active_fruits = IF loaded THEN @ + 1 ELSE @]
    /\ before' = window
    /\ op' = "spawn"
    /\ UNCHANGED worker_vars

\* the user closes the window: closeEvent (lines 642-650); no worker thread
\* runs beside the window on its own, so stop() is not called
CloseWindow ==
    /\ ~window.closed
    /\ window' = CloseEvent(window)
    /\ before' = window
    /\ op' = "close"
    /\ UNCHANGED worker_vars

WindowNext ==
    \/ GestureReady
    \/ CoordsReady
    \/ PageFlick
    \/ ReturnHome
    \/ GameLoop
    \/ SpawnRandomFruit
    \/ CloseWindow

SpecWindow == Init /\ [][WindowNext]_vars

----------------------------------------------------------------------------
(* The cursor: sessions whose hand moves its index fingertip, comes and goes *)

\* index fingertip coordinates, in hundredths
TipCoords == {30, 70}

\* a hand that neither pinches nor flicks, with its index fingertip at (x, y)
HandAt(wrist_tip, x, y) ==
    [label |-> "Right", wrist_tip |-> wrist_tip, thumb_middle |-> PINCH_THRESHOLD,
     thumb_pinky |-> FLICK_THRESHOLD, index_x |-> x, index_y |-> y]

CursorFrames ==
    {<<>>} \cup { <<HandAt(w, x, y)>> : w \in {WristTipClosed, WristTipOpen},
                                        x \in TipCoords, y \in TipCoords }

\* lines 83-213: one loop iteration on a frame that was read, of the first
\* MaxFrames of the session
CursorFrame ==
    /\ pc = "loop" /\ running
    /\ life.frame_no < MaxFrames
    /\ Processed(CursorFrames)
    /\ life' = [life EXCEPT !.frame_no = @ + 1]
    /\ shown' = Append(shown, hands' # <<>>)
    /\ UNCHANGED <<running, pc, cap, stopper, queue, window, served, before, fed,
                   outs>>

CursorNext ==
    \/ Start
    \/ OpenCamera
    \/ CursorFrame

SpecCursor == Init /\ [][CursorNext]_vars

----------------------------------------------------------------------------
(* Vocabulary of the properties *)

\* the pinch pose (thumb tip on middle fingertip) shows on the cursor hand
PinchPose(hs) == hs # <<>> /\ hs[1].thumb_middle < PINCH_THRESHOLD

\* the flick pose (thumb tip on pinky tip) shows on some detected hand
FlickPose(hs) == \E i \in 1..Len(hs) : hs[i].thumb_pinky < FLICK_THRESHOLD

\* gesture_ready(True) is among the signals
GraspEmitted(sigs) ==
    \E i \in 1..Len(sigs) : sigs[i].sig = "gesture_ready" /\ sigs[i].arg

HomeEmitted(sigs) == Emits(sigs, "return_home_ready")

PageEmitted(sigs) == Emits(sigs, "page_flick_ready")

Latest(log) == log[Len(log)]

----------------------------------------------------------------------------
(* C1 *)

\* C1: return_home_ready is emitted only on a rising edge of the pinch pose: on
\* a frame that shows the pose while the processed frame before it did not;
\* never on a later frame of one continuous run of frames showing the pose.
C1_HomeOnlyOnRisingEdge ==
    [][(op' = "frame" /\ HomeEmitted(emitted'))
          => (PinchPose(hands') /\ ~PinchPose(hands))]_vars

----------------------------------------------------------------------------
(* C2 *)

\* C2 as stated: on every frame with a hand the pinch machine goes Idle->Active
\* and emits return_home_ready iff the pinch distance is below PINCH_THRESHOLD,
\* the hand is not grasping, the machine is Idle, and at least PINCH_COOLDOWN
\* has passed since last_pinch_time.
C2_FiresIffAtLeastCooldown ==
    [][(op' = "frame" /\ hands' # <<>>) =>
          LET due == /\ PinchPose(hands')
                     /\ ~GraspEmitted(emitted')
                     /\ ~is_pinching
                     /\ current_time' - last_pinch_time >= PINCH_COOLDOWN
          IN  /\ HomeEmitted(emitted') <=> due
              /\ (~is_pinching /\ is_pinching') <=> due]_vars

\* C2 (amended): the same, with MORE than PINCH_COOLDOWN passed since
\* last_pinch_time: at exactly PINCH_COOLDOWN the machine stays Idle and silent.
C2_FiresIffOverCooldown ==
    [][(op' = "frame" /\ hands' # <<>>) =>
          LET due == /\ PinchPose(hands')
                     /\ ~GraspEmitted(emitted')
                     /\ ~is_pinching
                     /\ current_time' - last_pinch_time > PINCH_COOLDOWN
          IN  /\ HomeEmitted(emitted') <=> due
              /\ (~is_pinching /\ is_pinching') <=> due]_vars

\* a frame showing the pinch, no grasp, the machine Idle, exactly
\* PINCH_COOLDOWN after the previous emission: nothing is emitted
C2_Witness ==
    /\ op = "frame" /\ PinchPose(hands) /\ ~GraspEmitted(emitted)
    /\ ~prev.pinching
    /\ last_home_emit # <<>>
    /\ current_time - Latest(last_home_emit) = PINCH_COOLDOWN
    /\ ~HomeEmitted(emitted) /\ ~is_pinching

----------------------------------------------------------------------------
(* C3 *)

\* C3: any two emissions of return_home_ready are at least PINCH_COOLDOWN of
\* frame time apart (stated of every two consecutive ones).
C3_HomeEmissionsSpaced ==
    Len(last_home_emit) = 2
        => last_home_emit[2] - last_home_emit[1] >= PINCH_COOLDOWN

\* a second emission, after a frame without a hand, as early as the code lets it
C3_Witness ==
    /\ Len(last_home_emit) = 2
    /\ last_home_emit[2] - last_home_emit[1] = PINCH_COOLDOWN + 1
    /\ op = "frame" /\ HomeEmitted(emitted) /\ lost.pinch

----------------------------------------------------------------------------
(* C4 *)

\* C4: no frame emits both gesture_ready(True) and return_home_ready.
C4_NoHomeWhileGrasping == ~(HomeEmitted(emitted) /\ GraspEmitted(emitted))

\* a grasping frame on which everything else asks for the emission: the pinch
\* shows, the machine was Idle, the cooldown is over
C4_Witness ==
    /\ op = "frame" /\ GraspEmitted(emitted) /\ PinchPose(hands)
    /\ ~prev.pinching
    /\ current_time - last_pinch_time > PINCH_COOLDOWN
    /\ ~HomeEmitted(emitted)

----------------------------------------------------------------------------
(* C5 *)

\* C5 as stated: when a machine was Active and a frame without a hand has been
\* processed, the next frame with a hand that shows a qualifying pose (pinch:
\* shown and no grasp; flick: shown) emits the event again, whatever time has
\* passed since the previous emission.
C5_RefiresAfterHandLoss ==
    [][(op' = "frame" /\ hands = <<>> /\ hands' # <<>>) =>
          /\ (prev.pinching /\ PinchPose(hands') /\ ~GraspEmitted(emitted'))
                => HomeEmitted(emitted')
          /\ (prev.flicking /\ FlickPose(hands'))
                => PageEmitted(emitted')]_vars

\* C5 (amended): in that situation the event is emitted again if and only if
\* more than the cooldown has passed since the previous emission: the frame
\* without a hand makes the machine Idle, it does not waive the cooldown.
C5_RefiresAfterHandLossOnceCooled ==
    [][(op' = "frame" /\ hands = <<>> /\ hands' # <<>>) =>
          /\ (prev.pinching /\ PinchPose(hands') /\ ~GraspEmitted(emitted'))
                => /\ last_home_emit # <<>>
                   /\ HomeEmitted(emitted') <=>
                        current_time' - Latest(last_home_emit) > PINCH_COOLDOWN
          /\ (prev.flicking /\ FlickPose(hands'))
                => /\ last_page_emit # <<>>
                   /\ PageEmitted(emitted') <=>
                        current_time' - Latest(last_page_emit) > FLICK_COOLDOWN]_vars

\* both machines were Active, the hand was lost for a frame, and the frame
\* after it emits both events again
C5_Witness ==
    /\ op = "frame" /\ lost.pinch /\ lost.flick
    /\ HomeEmitted(emitted) /\ PageEmitted(emitted)
    /\ Len(last_home_emit) = 2 /\ Len(last_page_emit) = 2

----------------------------------------------------------------------------
(* C6 *)

\* C6 as stated: a pinch pose held over consecutive frames, a hand present and
\* not grasping in each, the cooldown elapsed (at least PINCH_COOLDOWN since
\* the previous emission) at its first frame, has emitted return_home_ready
\* exactly once, on its first frame.
C6_HeldPinchFiresOnceAtStart ==
    (hold.frames >= 1 /\ hold.clean /\ hold.due)
        => (hold.fires = 1 /\ hold.first)

\* C6 (amended): the same for a pose at whose first frame MORE than
\* PINCH_COOLDOWN has passed since the previous emission.
C6_HeldPinchFiresOnceAtStartOverCooldown ==
    (hold.frames >= 1 /\ hold.clean /\ hold.over)
        => (hold.fires = 1 /\ hold.first)

\* a pose held without grasp for MaxHold frames or more and for longer than
\* the cooldown since its first frame emitted
C6_Witness ==
    /\ hold.frames = MaxHold /\ hold.clean /\ hold.over
    /\ hold.fires = 1 /\ hold.first
    /\ current_time - Latest(last_home_emit) > PINCH_COOLDOWN
    /\ is_pinching

----------------------------------------------------------------------------
(* C7 *)

Direction(label) == IF label = "Right" THEN 1 ELSE -1

\* C7: every page_flick_ready carries +1 or -1, and it is the direction of the
\* triggering hand, the first hand in iteration order that shows the flick
\* pose: +1 for Right, -1 for Left.
C7_FlickDirectionOfTriggeringHand ==
    \A k \in 1..Len(emitted) :
        emitted[k].sig = "page_flick_ready" =>
            /\ emitted[k].arg \in {1, -1}
            /\ \E i \in 1..Len(hands) :
                 /\ hands[i].thumb_pinky < FLICK_THRESHOLD
                 /\ \A j \in 1..(i - 1) : ~(hands[j].thumb_pinky < FLICK_THRESHOLD)
                 /\ hands[i].label \in {"Left", "Right"}
                 /\ emitted[k].arg = Direction(hands[i].label)

\* two hands, only the second (a Right hand, the cursor hand is Left) shows the
\* pose: +1 is emitted
C7_Witness ==
    /\ op = "frame" /\ Len(hands) = 2
    /\ hands[1].label = "Left" /\ ~(hands[1].thumb_pinky < FLICK_THRESHOLD)
    /\ hands[2].label = "Right" /\ hands[2].thumb_pinky < FLICK_THRESHOLD
    /\ \E k \in 1..Len(emitted) :
         emitted[k].sig = "page_flick_ready" /\ emitted[k].arg = 1

----------------------------------------------------------------------------
(* C8 *)

PageCount(sigs) == Cardinality({ k \in 1..Len(sigs) : sigs[k].sig = "page_flick_ready" })

\* C8: a frame emits at most one page_flick_ready, also with two hands below
\* FLICK_THRESHOLD, and any two emissions (stated of every two consecutive
\* ones) are at least FLICK_COOLDOWN apart.
C8_OneFlickPerFrameAndCooldown ==
    /\ PageCount(emitted) <= 1
    /\ Len(last_page_emit) = 2
          => last_page_emit[2] - last_page_emit[1] >= FLICK_COOLDOWN

\* both hands show the pose; the frame emits once, for the earlier hand, the
\* second emission of the session
C8_Witness ==
    /\ op = "frame" /\ Len(hands) = 2
    /\ \A i \in 1..2 : hands[i].thumb_pinky < FLICK_THRESHOLD
    /\ PageCount(emitted) = 1
    /\ \E k \in 1..Len(emitted) :
         /\ emitted[k].sig = "page_flick_ready"
         /\ emitted[k].arg = Direction(hands[1].label)
    /\ Len(last_page_emit) = 2

----------------------------------------------------------------------------
(* C9 *)

\* C9: page_flick_ready is emitted only on a rising edge of the flick pose:
\* never on a frame when the processed frame before it already showed the pose
\* on some hand.
C9_FlickOnlyOnRisingEdge ==
    [][(op' = "frame" /\ PageEmitted(emitted'))
          => (FlickPose(hands') /\ ~FlickPose(hands))]_vars

----------------------------------------------------------------------------
(* C10 *)

\* C10: a frame that was read and shows no hand leaves both machines Idle,
\* emits nothing but the image, and leaves last_pinch_time, last_flick_time and
\* the filter as they were.
C10_NoHandFrame ==
    [][(op' = "frame" /\ hands' = <<>>) =>
          /\ ~is_pinching' /\ ~is_flicking'
          /\ \A k \in 1..Len(emitted') :
               emitted'[k].sig \notin {"coords_ready", "gesture_ready",
                                       "return_home_ready", "page_flick_ready"}
          /\ last_pinch_time' = last_pinch_time
          /\ last_flick_time' = last_flick_time
          /\ filter_index' = filter_index]_vars

\* a frame without a hand has just reset both machines from Active, with the
\* filter already initialised
C10_Witness ==
    /\ op = "frame" /\ hands = <<>>
    /\ prev.pinching /\ prev.flicking
    /\ ~is_pinching /\ ~is_flicking
    /\ filter_index.last_x # None
    /\ last_pinch_time > 0 /\ last_flick_time > 0

----------------------------------------------------------------------------
(* C11 *)

\* C11: when the hand that was grasping disappears, the no-hand frame emits
\* gesture_ready(false), so the window's is_grasping is not left true while no
\* hand is detected: once the window has handled every call posted up to a
\* no-hand frame, its is_grasping is false.
C11_GraspReleasedOnHandLoss ==
    (life.frame_no > 0 /\ hands = <<>> /\ queue = <<>>) => ~window.is_grasping

----------------------------------------------------------------------------
(* C12 *)

\* C12: an iteration whose read succeeded emits image_ready exactly once, with
\* or without a hand, and emits it after every other signal of the iteration.
C12_ImageOnceAndLast ==
    op = "frame" =>
        /\ emitted # <<>>
        /\ emitted[Len(emitted)].sig = "image_ready"
        /\ Cardinality({k \in 1..Len(emitted) : emitted[k].sig = "image_ready"}) = 1

\* an iteration has emitted all five signals, the image last
C12_Witness ==
    /\ op = "frame" /\ hands # <<>>
    /\ Len(emitted) = 5
    /\ HomeEmitted(emitted) /\ PageEmitted(emitted)
    /\ emitted[5].sig = "image_ready"

----------------------------------------------------------------------------
(* C13 *)

\* C13: a failed read is transient.  The step that fails (the read is left, and
\* not for the rest of the iteration) posts and emits nothing, leaves is_pinching, is_flicking,
\* last_pinch_time, last_flick_time and the filter unchanged, and leaves the
\* running flag, the camera and the owner's stop() as they were: the loop test
\* comes next, and while running is true it reads again, however many reads
\* failed before.
C13_FailedReadIsTransient ==
    [][(pc = "read" /\ pc' \notin {"read", "process"}) =>
          /\ pc' = "loop"
          /\ UNCHANGED <<is_pinching, is_flicking, last_pinch_time,
                         last_flick_time, filter_index>>
          /\ UNCHANGED <<emitted, queue>>
          /\ life'.posted = life.posted /\ life'.frame_no = life.frame_no
          /\ UNCHANGED <<running, cap, stopper>>
          /\ cap' = "open"]_vars

\* MaxFails reads in a row have failed after a frame initialised the filter and
\* the session is still at its loop test, running
C13_Witness ==
    /\ life.fails = MaxFails /\ life.frame_no > 0
    /\ pc = "loop" /\ running /\ cap = "open"
    /\ filter_index.last_x # None

----------------------------------------------------------------------------
(* C14 *)

\* C14: when the camera does not open, run() clears running and returns at
\* once: the step that fails ends with the thread finished, and for as long as
\* the camera is in that state no read is made, no iteration runs and nothing
\* is emitted or posted; run() does not try again (it is entered again only if
\* the owner calls start() again).
C14_CameraOpenFailureEndsSession ==
    [][(cap' = "failed") =>
          /\ ~running'
          /\ pc' \in {"finished", "run"}
          /\ (cap # "failed" => pc' = "finished")
          /\ (pc' = "run" => life'.restarted)
          /\ UNCHANGED <<emitted, hands, filter_index>>
          /\ life'.frame_no = life.frame_no
          /\ life'.posted = life.posted
          /\ life'.fails = life.fails]_vars

\* the first run() found no camera: the thread has finished without a frame,
\* with running cleared although nobody called stop()
C14_Witness ==
    /\ cap = "failed" /\ pc = "finished" /\ ~running
    /\ stopper = "idle" /\ ~life.restarted
    /\ life.frame_no = 0 /\ life.fails = 0 /\ queue = <<>> /\ emitted = <<>>

----------------------------------------------------------------------------
(* C15 *)

\* C15: wherever the worker thread stands when the owner calls stop(), at the
\* step where stop() returns the thread has left run() and the camera is
\* released (or was never opened), and from then on no step makes a read, runs
\* an iteration, emits a signal or posts a call.
C15_NothingAfterStopReturns ==
    [][(stopper' = "returned") =>
          /\ (stopper # "returned" => pc = "finished" /\ cap \in {"released", "failed"})
          /\ pc' \notin {"read", "process"}
          /\ emitted' = emitted
          /\ life'.posted = life.posted
          /\ life'.frame_no = life.frame_no
          /\ life'.fails = life.fails]_vars

\* stop() has returned from a session that processed frames; calls of its last
\* iteration are still waiting for the window
C15_Witness ==
    /\ stopper = "returned" /\ pc = "finished" /\ cap = "released"
    /\ life.frame_no > 0 /\ queue # <<>>

----------------------------------------------------------------------------
(* C16 *)

\* C16: when the worker thread is scheduled and every read and inference
\* returns, a call of stop() returns: the worker finishes at most the iteration
\* it is in, leaves the loop (also when every read fails), releases the camera,
\* and its emits never wait for the window that is blocked in stop().
C16_StopReturns ==
    (stopper = "waiting")
        ~> (stopper = "returned" /\ pc = "finished" /\ cap \in {"released", "failed"})

\* stop() is waiting while the worker is about to read, after failed reads only
C16_Witness ==
    /\ stopper = "waiting" /\ ~running
    /\ pc = "read" /\ life.fails = MaxFails /\ life.frame_no = 0

----------------------------------------------------------------------------
(* C17 *)

\* C17: Stopped is terminal.  No step sets running to True once it is False
\* (cleared by stop() or by a camera that does not open), and a run() entered by
\* a start() issued after that makes no read, runs no iteration and emits and
\* posts nothing.
C17_StoppedIsTerminal ==
    [][/\ (~running => ~running')
       /\ (pc = "created" => pc' \in {"created", "run"})
       /\ (life'.restarted =>
             /\ ~running'
             /\ pc' \notin {"read", "process"}
             /\ emitted' = emitted
             /\ life'.posted = life.posted
             /\ life'.frame_no = life.frame_no
             /\ life'.fails = life.fails)]_vars

\* a second run(), started after stop() had returned, has opened the camera,
\* skipped the loop and released the camera again
C17_Witness ==
    /\ life.restarted /\ op = "exit"
    /\ pc = "finished" /\ cap = "released" /\ ~running
    /\ stopper = "returned" /\ life.frame_no > 0

----------------------------------------------------------------------------
(* C18 *)

\* C18: the window handles the emitted signals in emission order, each at most
\* once: the signal it handled latest is the one emitted right after the one it
\* handled before, never of an earlier frame, and every call still waiting is
\* for a later signal, the waiting calls being in emission order themselves.
C18_HandledInEmissionOrder ==
    /\ served.seq > 0 =>
          /\ served.seq = served.prev_seq + 1
          /\ served.frame >= served.prev_frame
          /\ served.frame \in {served.prev_frame, served.prev_frame + 1}
    /\ \A i \in 1..Len(queue) :
          /\ queue[i].seq > served.seq
          /\ queue[i].frame >= served.frame
          /\ i > 1 => /\ queue[i].seq = queue[i - 1].seq + 1
                      /\ queue[i].frame >= queue[i - 1].frame
    /\ Len(queue) + served.seq <= life.posted

\* the window has handled the last signal of frame 1 and then the first of
\* frame 2, whose other calls wait together with those of frame 3
C18_Witness ==
    /\ served.prev_frame = 1 /\ served.frame = 2
    /\ Len(queue) > 1
    /\ queue[1].frame = 2 /\ queue[Len(queue)].frame = 3

----------------------------------------------------------------------------
(* C19 *)

\* C19: the first call of filter returns its input unchanged; every later call
\* returns alpha * raw + (1 - alpha) * previous output, on x and on y
\* separately; with alpha = 0.3 the raw points (0.5, 0.5), (0.5, 0.5),
\* (0.9, 0.5) give (0.5, 0.5), (0.5, 0.5), (0.62, 0.5).
C19_FilterFormula ==
    /\ Len(outs) = Len(fed)
    /\ \A k \in 1..Len(fed) : \A a \in {1, 2} :
          LET o == outs[k][a]
          IN  /\ o[2] > 0
              /\ IF k = 1 THEN o[1] = fed[1][a] * o[2]
                 ELSE LET p == outs[k - 1][a]
                      IN  ALPHA[2] * p[2] * o[1] =
                            o[2] * (ALPHA[1] * fed[k][a] * p[2]
                                    + (ALPHA[2] - ALPHA[1]) * p[1])
    /\ ALPHA = <<3, 10>>
    /\ fed = << <<50, 50>>, <<50, 50>>, <<90, 50>> >> =>
          outs = << <<Rat(50), Rat(50)>>, <<Rat(50), Rat(50)>>, <<Rat(62), Rat(50)>> >>

\* the filter has been given (0.5, 0.5), (0.5, 0.5), (0.9, 0.5) and has just
\* returned (0.62, 0.5)
C19_Witness ==
    /\ fed = << <<50, 50>>, <<50, 50>>, <<90, 50>> >>
    /\ outs[3] = <<Rat(62), Rat(50)>>
    /\ filter_index.last_x = Some(Rat(62))

----------------------------------------------------------------------------
(* C20 *)

Abs(n) == IF n < 0 THEN -n ELSE n

RECURSIVE Pow(_, _)
Pow(b, k) == IF k = 0 THEN 1 ELSE b * Pow(b, k - 1)

\* on axis a the raw input of every call after call i is the one of the
\* latest call
ConstantSince(i, a) == \A m \in (i + 1)..Len(fed) : fed[m][a] = fed[Len(fed)][a]

\* the output of call m on axis a minus c, as a numerator over outs[m][a][2]
Err(m, a, c) == outs[m][a][1] - c * outs[m][a][2]

\* from call i on, every call leaves the output on the same side of c, not
\* farther from it, and nearer to it unless it was there already
TowardsWithoutOvershoot(i, a) ==
    LET c == fed[Len(fed)][a]
    IN  \A m \in (i + 1)..Len(fed) :
           /\ Err(m, a, c) * Err(m - 1, a, c) >= 0
           /\ Abs(Err(m, a, c)) * outs[m - 1][a][2]
                 <= Abs(Err(m - 1, a, c)) * outs[m][a][2]
           /\ Err(m - 1, a, c) # 0 =>
                 Abs(Err(m, a, c)) * outs[m - 1][a][2]
                    < Abs(Err(m - 1, a, c)) * outs[m][a][2]

\* the error after the latest call is at most (num/den)^k times the error
\* after call i, k being the number of calls since
Within(i, a, num, den) ==
    LET c == fed[Len(fed)][a]
        k == Len(fed) - i
    IN  Abs(Err(Len(fed), a, c)) * outs[i][a][2] * Pow(den, k)
           <= Pow(num, k) * Abs(Err(i, a, c)) * outs[Len(fed)][a][2]

\* C20 as stated: an initialised filter fed the constant c for k calls moves
\* towards c without overshoot and ends within alpha^k * initial_error of c.
C20_WithinAlphaPowK ==
    \A a \in {1, 2} : \A i \in 1..(Len(fed) - 1) :
        ConstantSince(i, a) =>
            /\ TowardsWithoutOvershoot(i, a)
            /\ Within(i, a, ALPHA[1], ALPHA[2])

\* C20, amended: an initialised filter fed the constant c for k calls moves
\* towards c without overshoot and ends within (1 - alpha)^k * initial_error
\* of c, and exactly that far from it.
C20_WithinOneMinusAlphaPowK ==
    \A a \in {1, 2} : \A i \in 1..(Len(fed) - 1) :
        ConstantSince(i, a) =>
            /\ TowardsWithoutOvershoot(i, a)
            /\ Within(i, a, ALPHA[2] - ALPHA[1], ALPHA[2])
            /\ Abs(Err(Len(fed), a, fed[Len(fed)][a])) * outs[i][a][2]
                     * Pow(ALPHA[2], Len(fed) - i)
                 = Pow(ALPHA[2] - ALPHA[1], Len(fed) - i)
                     * Abs(Err(i, a, fed[Len(fed)][a])) * outs[Len(fed)][a][2]

\* a filter initialised at 0.1 on x has been fed 0.9 twice, and one
\* initialised at 0.9 on y has been fed 0.5 twice
C20_Witness ==
    /\ Len(fed) = MaxCalls
    /\ fed[1] = <<10, 90>>
    /\ \A m \in 2..Len(fed) : fed[m] = <<90, 50>>
    /\ outs[Len(outs)][1] # Rat(90)

----------------------------------------------------------------------------
(* C22 *)

\* C22: a frame with a hand emits gesture_ready exactly once, with the value
\* "the mean of the four wrist-to-fingertip distances of hand[0] is below
\* GRASP_THRESHOLD", strictly: a mean of 0.10 gives true, a mean of exactly
\* 0.20 gives false; the value is emitted on every such frame, changed or not.
C22_GraspEmittedOncePerHandFrame ==
    (op = "frame" /\ hands # <<>>) =>
        LET d == hands[1].wrist_tip
            at == {k \in 1..Len(emitted) : emitted[k].sig = "gesture_ready"}
        IN  /\ Cardinality(at) = 1
            /\ \A k \in at :
                  /\ emitted[k].arg = (d[1] + d[2] + d[3] + d[4] < 4 * GRASP_THRESHOLD)
                  /\ (d[1] + d[2] + d[3] + d[4] = 40 => emitted[k].arg = TRUE)
                  /\ (d[1] + d[2] + d[3] + d[4] = 80 => emitted[k].arg = FALSE)

\* a hand whose mean distance is exactly 0.20 has just been reported as not
\* grasping
C22_Witness ==
    /\ op = "frame" /\ hands # <<>>
    /\ SumSeq(hands[1].wrist_tip) = 4 * GRASP_THRESHOLD
    /\ emitted[1] = Signal("gesture_ready", FALSE)

----------------------------------------------------------------------------
(* C21 *)

\* the step processes a frame of a cursor session
FrameStep == life'.frame_no = life.frame_no + 1

\* the filter's value v' on one axis is alpha * raw + (1 - alpha) * v
Smoothed(v1, raw, v) ==
    ALPHA[2] * v[2] * v1[1]
        = v1[2] * (ALPHA[1] * raw * v[2] + (ALPHA[2] - ALPHA[1]) * v[1])

\* C21: the filter is initialised by the first frame with a hand and by
\* nothing else, and never reset: a frame without a hand leaves last_x and
\* last_y as they are, and a frame with a hand that finds the filter
\* initialised (the first one after a gap included) is smoothed against the
\* value the filter holds instead of passing through.
C21_FilterNeverReset ==
    [][/\ (filter_index.last_x # None =>
              filter_index'.last_x # None /\ filter_index'.last_y # None)
       /\ (filter_index.last_x = None /\ filter_index'.last_x # None =>
              /\ FrameStep /\ hands' # <<>>
              /\ \A k \in 1..Len(shown) : ~shown[k]
              /\ filter_index'.last_x = Some(Rat(hands'[1].index_x)))
       /\ (FrameStep /\ hands' = <<>> => filter_index' = filter_index)
       /\ (FrameStep /\ hands' # <<>> /\ filter_index.last_x = None =>
              filter_index'.last_x # None)
       /\ (FrameStep /\ hands' # <<>> /\ filter_index.last_x # None =>
              Smoothed(filter_index'.last_x[1], hands'[1].index_x,
                       filter_index.last_x[1]))]_vars

\* a hand at x = 0.30, then no hand, then a hand at x = 0.70: the filter
\* returns 0.3 * 0.70 + 0.7 * 0.30 = 0.42
C21_Witness ==
    /\ shown = <<TRUE, FALSE, TRUE>>
    /\ hands # <<>> /\ hands[1].index_x = 70
    /\ filter_index.last_x = Some(Rat(42))

----------------------------------------------------------------------------
(* C23 *)

\* C23: on a frame with a hand the filter is fed (index_tip.x, index_tip.y -
\* Y_COMPENSATION_OFFSET) when the frame is a grasp and (index_tip.x,
\* index_tip.y) when it is not: the offset is taken from the raw y before
\* smoothing, never from x, never on a frame without grasp; what the filter
\* returns for that point is what coords_ready carries.
C23_CompensationBeforeSmoothing ==
    [][(FrameStep /\ hands' # <<>>) =>
          LET tip == hands'[1]
              d == tip.wrist_tip
              grasp == d[1] + d[2] + d[3] + d[4] < 4 * GRASP_THRESHOLD
              x_fed == tip.index_x
              y_fed == IF grasp THEN tip.index_y - Y_COMPENSATION_OFFSET
                       ELSE tip.index_y
          IN  /\ IF filter_index.last_x = None
                 THEN /\ filter_index'.last_x = Some(Rat(x_fed))
                      /\ filter_index'.last_y = Some(Rat(y_fed))
                 ELSE /\ Smoothed(filter_index'.last_x[1], x_fed, filter_index.last_x[1])
                      /\ Smoothed(filter_index'.last_y[1], y_fed, filter_index.last_y[1])
              /\ emitted'[2] = Signal("coords_ready", <<filter_index'.last_x[1],
                                                       filter_index'.last_y[1]>>)]_vars

\* an open hand at y = 0.30, then a grasping hand at y = 0.70: the filter
\* returns 0.3 * (0.70 - 0.04) + 0.7 * 0.30 = 0.408 on y, and on x, where both
\* were at 0.30, 0.30
C23_Witness ==
    /\ shown = <<TRUE, TRUE>>
    /\ hands # <<>> /\ hands[1].wrist_tip = WristTipClosed
    /\ hands[1].index_y = 70 /\ hands[1].index_x = 30
    /\ filter_index.last_y = Some(<<204, 5>>)
    /\ filter_index.last_x = Some(Rat(30))

----------------------------------------------------------------------------
(* C24 *)

\* the fields of the window that C24 compares
Core(w) ==
    <<w.game_state, w.current_selection, w.current_color, w.current_pen_size,
      w.is_grasping>>

\* C24: handling gesture_ready(b) twice in a row leaves game_state,
\* current_selection, current_color, current_pen_size and is_grasping as
\* handling it once does, and a launcher click or a colour or size pick-up
\* (a change of mode, colour or pen size, or the window closing, made by
\* handle_grasp_state) happens only when is_grasping goes from false to true.
C24_GraspIsIdempotent ==
    /\ \A b \in BOOLEAN :
          Core(HandleGraspState(HandleGraspState(window, b), b))
             = Core(HandleGraspState(window, b))
    /\ (/\ op = "gesture_ready"
        /\ \/ window.game_state # before.game_state
           \/ window.current_color # before.current_color
           \/ window.current_pen_size # before.current_pen_size
           \/ window.closed # before.closed)
          => (~before.is_grasping /\ window.is_grasping)

\* in the drawing app, with the cursor on the Green tile, the grasp has just
\* gone from false to true and picked the colour up
C24_Witness ==
    /\ op = "gesture_ready"
    /\ before.game_state = "drawing_app" /\ ~before.is_grasping
    /\ before.current_color = "Red"
    /\ window.is_grasping /\ window.current_color = "Green"

----------------------------------------------------------------------------
(* C25 *)

\* C25: current_selection stays within 0..len(game_list)-1 whatever flick,
\* grasp and pinch events arrive; a flick moves it by its direction, wrapping
\* at both ends, when the mode is the launcher, and leaves it alone in every
\* other mode; in the launcher a +1 flick followed by a -1 flick restores it.
C25_SelectionInRange ==
    LET n == Len(game_list)
        s == before.current_selection
    IN  /\ window.current_selection \in 0..(n - 1)
        /\ op = "flick_right" =>
              window.current_selection =
                 IF before.game_state # "launcher" THEN s
                 ELSE IF s = n - 1 THEN 0 ELSE s + 1
        /\ op = "flick_left" =>
              window.current_selection =
                 IF before.game_state # "launcher" THEN s
                 ELSE IF s = 0 THEN n - 1 ELSE s - 1
        /\ window.game_state = "launcher" =>
              HandleFlickGesture(HandleFlickGesture(window, 1), -1).current_selection
                 = window.current_selection

\* in the launcher a flick to the left has just wrapped the selection from
\* the first game to the last
C25_Witness ==
    /\ op = "flick_left"
    /\ before.game_state = "launcher" /\ before.current_selection = 0
    /\ window.current_selection = Len(game_list) - 1

----------------------------------------------------------------------------
(* C26 *)

\* C26: whatever clicks, return_home events and timer ticks arrive, a
\* return_home event leaves the mode 'launcher'; the spawn timer is active
\* only in 'fruit_slicer'; there are no fruits outside 'fruit_slicer'; and the
\* canvas and the colour and size tiles exist exactly in 'drawing_app'.
C26_ModeOwnsItsItems ==
    /\ op = "return_home" => window.game_state = "launcher"
    /\ window.spawn_timer => window.game_state = "fruit_slicer"
    /\ window.game_state # "fruit_slicer" => window.active_fruits = 0
    /\ window.drawing_canvas <=> window.game_state = "drawing_app"
    /\ window.color_tiles # <<>> <=> window.game_state = "drawing_app"
    /\ window.size_tiles # <<>> <=> window.game_state = "drawing_app"

\* a return_home event has just ended a fruit slicer game with fruits in the
\* scene and the spawn timer running
C26_Witness ==
    /\ op = "return_home"
    /\ before.game_state = "fruit_slicer" /\ before.spawn_timer
    /\ before.active_fruits = MaxFruits
    /\ window.game_state = "launcher" /\ ~window.spawn_timer
    /\ window.active_fruits = 0

====
